---- MODULE Spec2Model ----
(***************************************************************************)
(* Job scheduler of addon/lib/simulator-steps.js (job-scheduler module):   *)
(* JobScheduler, Job and CompositeJob.                                     *)
(*                                                                         *)
(* Execution model.  emit() of sdk/event/core calls the listeners          *)
(* synchronously and swallows their exceptions; the emits of this module   *)
(* are all the last statement of their handler, so a synchronous emit is a *)
(* task pushed on `stack' and dispatched before anything else.  Promise    *)
(* reactions (the callbacks given to then) run after the synchronous code  *)
(* that settled the promise, in settlement order: they are the FIFO        *)
(* `micro'.  An action runs one event-loop turn to its end: until nothing  *)
(* is left to dispatch, or until control enters a handler supplied by the  *)
(* caller (handleRun, handleCancel, handleCleanup of a plain Job); `call'  *)
(* then names that handler and HandlerReturn is the only enabled action.   *)
(***************************************************************************)
EXTENDS Integers, Sequences, FiniteSets, TLC

VARIABLES jobs, sched, obs, stack, micro, call

vars == <<jobs, sched, obs, stack, micro, call>>

(* ---- bounds ---- *)
MaxRetries == 2
MaxSteps == 2
MaxJobs == 2
MaxCalls == 3
MaxCompositeCalls == 2
MaxJobSteps == 3

(* ---- JavaScript values ---- *)
U == "undefined"
T == "true"
F == "false"

Truthy(x) == x /= U /\ x /= F

Kinds == {"run", "cancel", "cleanup"}

ApiCalls == {"run", "abort", "cleanup"}

NoW == [k |-> "none", by |-> "none", p |-> 0]

Waiter(k, by, p) == [k |-> k, by |-> by, p |-> p]

NoCall == [j |-> 0, kind |-> "none"]

(* a Job:fsm / CompositeJob:fsm request object *)
Req(type) ==
  [type |-> type, reason |-> U, w |-> NoW, success |-> U, error |-> U,
   autoCleanup |-> U]

FsmTask(j, req) == [t |-> "fsm", j |-> j, req |-> req]

CfsmTask(j, type) == [t |-> "cfsm", j |-> j, req |-> Req(type)]

SettledTask(j, kind, ok, err) ==
  [t |-> "settled", j |-> j,
   req |-> [Req(kind) EXCEPT !.success = ok, !.error = err]]

ResolvedTask(j, w) ==
  [t |-> "resolved", j |-> j, req |-> [Req("resolved") EXCEPT !.w = w]]

SchedTask(type) == [t |-> type, j |-> 0, req |-> Req(type)]

(* InitRetries granting one attempt more than maxRetries *)
InitRetriesOneMore(maxRetries) == maxRetries + 1

(* priv.retries = priv.retries || priv.options.maxRetries || 1;            *)
(* an absent maxRetries option is 0 here                                   *)
InitRetries(maxRetries) == IF maxRetries = 0 THEN 1 ELSE maxRetries

(* Job.initialize / CompositeJob.initialize.  The fields from timers on    *)
(* are bookkeeping of what the environment holds or has seen: the timers   *)
(* set and neither fired nor cleared, the handler deferreds not yet        *)
(* settled, the handler invocations, the caller's promises resolved and    *)
(* rejected, the API calls made, the Job:fsm events handled so far (fsm)   *)
(* and the completions signalled so far by the caller's handlers (sig);    *)
(* cur is the deferred given to the latest call of a handler               *)
(* (priv.currentDefer of that call): "none" before the handler returns     *)
(* and when it threw, "pending" while unsettled, then its outcome.         *)
NewJob(kind, maxRetries, timeout, steps, parent) ==
  [kind |-> kind, maxRetries |-> maxRetries, timeout |-> timeout,
   steps |-> steps, parent |-> parent,
   state |-> "NEW", retries |-> InitRetries(maxRetries),
   autoCleanup |-> U, success |-> U, error |-> U, abort |-> U,
   successCancel |-> U, errorCancel |-> U,
   successCleanup |-> U, errorCleanup |-> U,
   runningTimeout |-> FALSE, timers |-> 0,
   userDeferred |-> <<>>,
   currentStepIndex |-> 0, totalSteps |-> Len(steps),
   npend |-> [k \in Kinds |-> 0],
   cur |-> [k \in Kinds |-> "none"],
   ncalls |-> [k \in Kinds |-> 0],
   nres |-> [k \in ApiCalls |-> 0],
   nrej |-> 0, napi |-> [k \in ApiCalls |-> 0],
   fsm |-> {}, sig |-> {}]

(* ---- the machine: the program state as one record ---- *)
Cur ==
  [jobs |-> jobs, sched |-> sched, obs |-> obs, stack |-> stack,
   micro |-> micro, call |-> call]

(* (the quantifier binds the record once, as a value) *)
Commit(m) ==
  \E r \in {m} :
    /\ jobs' = r.jobs
    /\ sched' = r.sched
    /\ obs' = r.obs
    /\ stack' = r.stack
    /\ micro' = r.micro
    /\ call' = r.call

(* emit(job, "Job:fsm", req): synchronous dispatch *)
emit(m, j, req) == [m EXCEPT !.stack = <<FsmTask(j, req)>> \o @]

emitComposite(m, j, type) == [m EXCEPT !.stack = <<CfsmTask(j, type)>> \o @]

(* a promise is settled: its reaction is queued *)
enqueueReaction(m, task) == [m EXCEPT !.micro = Append(@, task)]

(* req.userDeferred.reject(Error(...)): nobody in this module passes a     *)
(* rejection callback to then, so only a caller's promise observes it      *)
rejectRequest(m, j, req) ==
  IF req.w.by = "user" THEN [m EXCEPT !.jobs[j].nrej = @ + 1] ELSE m

(* ---- Job ---- *)
startTimeout(m, j) ==
  IF m.jobs[j].timeout
    THEN [m EXCEPT !.jobs[j].runningTimeout = TRUE, !.jobs[j].timers = @ + 1]
    ELSE m

clearTimeout(m, j) ==
  IF m.jobs[j].runningTimeout
    THEN [m EXCEPT !.jobs[j].runningTimeout = FALSE, !.jobs[j].timers = @ - 1]
    ELSE m

goRun(m, j, req) ==
  emit([m EXCEPT !.jobs[j].state = "RUN"], j,
       [Req("enterRun") EXCEPT !.autoCleanup = req.autoCleanup])

goCancel(m, j) ==
  emit([m EXCEPT !.jobs[j].state = "CANCEL"], j, Req("enterCancel"))

goCleanup(m, j) ==
  emit([m EXCEPT !.jobs[j].state = "CLEANUP"], j, Req("enterCleanup"))

doRetry(m, j) ==
  emit([m EXCEPT !.jobs[j].state = "RUN"], j, Req("retry"))

(* doAbort leaving the retry budget as it is *)
doAbortKeepingRetries(m, j) ==
  emit([m EXCEPT !.jobs[j].state = "RUN"], j, Req("retry"))

doAbort(m, j) ==
  emit([m EXCEPT !.jobs[j].state = "RUN", !.jobs[j].retries = 0], j,
       Req("retry"))

(* doExit running the waiters' callbacks without removing the waiters *)
doExitKeepingWaiters(m, j) ==
  [m EXCEPT !.jobs[j].state = "COMPLETED",
            !.micro = @ \o [i \in 1..Len(m.jobs[j].userDeferred) |->
                              ResolvedTask(j, m.jobs[j].userDeferred[i])]]

(* while (priv.userDeferred.length > 0) priv.userDeferred.shift().resolve() *)
doExit(m, j) ==
  [m EXCEPT !.jobs[j].state = "COMPLETED",
            !.jobs[j].userDeferred = <<>>,
            !.micro = @ \o [i \in 1..Len(m.jobs[j].userDeferred) |->
                              ResolvedTask(j, m.jobs[j].userDeferred[i])]]

pushUserDeferred(m, j, req) ==
  IF req.w /= NoW
    THEN [m EXCEPT !.jobs[j].userDeferred = Append(@, req.w)]
    ELSE m

(* job.handleRun / handleCancel / handleCleanup(priv.ctx, d).  A plain Job *)
(* enters the caller's handler; a CompositeJob's handler emits             *)
(* CompositeJob:fsm doRun / doCancel / doCleanup.                          *)
CompositeType(kind) ==
  CASE kind = "run" -> "doRun"
    [] kind = "cancel" -> "doCancel"
    [] kind = "cleanup" -> "doCleanup"

invokeHandler(m, j, kind) ==
  LET m1 == [m EXCEPT !.jobs[j].ncalls[kind] = @ + 1,
                      !.jobs[j].cur[kind] = "none",
                      !.obs.calls = Append(@, <<j, kind>>)]
  IN IF m.jobs[j].kind = "comp"
       THEN emitComposite(m1, j, CompositeType(kind))
       ELSE [m1 EXCEPT !.call = [j |-> j, kind |-> kind]]

doRun(m, j) == invokeHandler(m, j, "run")

doCancel(m, j) == invokeHandler(m, j, "cancel")

doCleanup(m, j) == invokeHandler(m, j, "cleanup")

(* onSettled taking a rejected cancel for the Job's failure *)
onSettledCancelFatal(m, j, kind, ok, err) ==
  LET m1 == clearTimeout(m, j)
  IN CASE kind = "run" ->
            emit(m1, j, [Req("exitRun") EXCEPT !.success = ok, !.error = err])
       [] kind = "cancel" /\ ok = T ->
            emit([m1 EXCEPT !.jobs[j].successCancel = ok],
                 j, [Req("exitCancel") EXCEPT !.success = ok, !.error = err])
       [] kind = "cancel" /\ ok /= T ->
            doExit([m1 EXCEPT !.jobs[j].successCancel = ok,
                              !.jobs[j].errorCancel = err,
                              !.jobs[j].success = F,
                              !.jobs[j].error = err], j)
       [] kind = "cleanup" ->
            emit([m1 EXCEPT !.jobs[j].successCleanup = ok,
                            !.jobs[j].errorCleanup = IF ok = T THEN @ ELSE err],
                 j, [Req("exitCleanup") EXCEPT !.success = ok, !.error = err])

(* the resolved / rejected callbacks of _doRun, _doCancel, _doCleanup *)
onSettled(m, j, kind, ok, err) ==
  LET m1 == clearTimeout(m, j)
  IN CASE kind = "run" ->
            emit(m1, j, [Req("exitRun") EXCEPT !.success = ok, !.error = err])
       [] kind = "cancel" ->
            emit([m1 EXCEPT !.jobs[j].successCancel = ok,
                            !.jobs[j].errorCancel = IF ok = T THEN @ ELSE err],
                 j, [Req("exitCancel") EXCEPT !.success = ok, !.error = err])
       [] kind = "cleanup" ->
            emit([m1 EXCEPT !.jobs[j].successCleanup = ok,
                            !.jobs[j].errorCleanup = IF ok = T THEN @ ELSE err],
                 j, [Req("exitCleanup") EXCEPT !.success = ok, !.error = err])

(* onThrown leaving the timer of the phase armed *)
onThrownKeepingTimer(m, j, kind, err) ==
  CASE kind = "run" ->
         emit(m, j, [Req("exitRun") EXCEPT !.success = F, !.error = err])
    [] kind = "cancel" ->
         emit([m EXCEPT !.jobs[j].successCancel = F,
                        !.jobs[j].errorCancel = err],
              j, [Req("exitCancel") EXCEPT !.success = F, !.error = err])
    [] kind = "cleanup" ->
         emit([m EXCEPT !.jobs[j].successCleanup = F,
                        !.jobs[j].errorCleanup = err],
              j, [Req("exitCleanup") EXCEPT !.success = F, !.error = err])

(* onThrown emitting the exit event without the exception *)
onThrownLosingError(m, j, kind, err) ==
  LET m1 == clearTimeout(m, j)
  IN CASE kind = "run" -> emit(m1, j, [Req("exitRun") EXCEPT !.success = F])
       [] kind = "cancel" ->
            emit([m1 EXCEPT !.jobs[j].successCancel = F], j,
                 [Req("exitCancel") EXCEPT !.success = F])
       [] kind = "cleanup" ->
            emit([m1 EXCEPT !.jobs[j].successCleanup = F], j,
                 [Req("exitCleanup") EXCEPT !.success = F])

(* the catch (e) blocks of _doRun, _doCancel, _doCleanup *)
onThrown(m, j, kind, err) ==
  LET m1 == clearTimeout(m, j)
  IN CASE kind = "run" ->
            emit(m1, j, [Req("exitRun") EXCEPT !.success = F, !.error = err])
       [] kind = "cancel" ->
            emit([m1 EXCEPT !.jobs[j].successCancel = F,
                            !.jobs[j].errorCancel = err],
                 j, [Req("exitCancel") EXCEPT !.success = F, !.error = err])
       [] kind = "cleanup" ->
            emit([m1 EXCEPT !.jobs[j].successCleanup = F,
                            !.jobs[j].errorCleanup = err],
                 j, [Req("exitCleanup") EXCEPT !.success = F, !.error = err])

(* handleOnNewState keeping the deferred of a request it cannot serve *)
handleOnNewStateKeeping(m, j, req) ==
  IF req.type = "run"
    THEN goRun(pushUserDeferred(m, j, req), j, req)
    ELSE pushUserDeferred(m, j, req)

handleOnNewState(m, j, req) ==
  IF req.type = "run"
    THEN goRun(pushUserDeferred(m, j, req), j, req)
    ELSE IF req.w /= NoW THEN rejectRequest(m, j, req) ELSE m

(* exitOrCleanup entering CLEANUP whatever autoCleanup is *)
exitOrCleanupAlways(m, j) == goCleanup(m, j)

exitOrCleanup(m, j) ==
  IF Truthy(m.jobs[j].autoCleanup) THEN goCleanup(m, j) ELSE doExit(m, j)

onEnterRun(m, j, req) ==
  IF m.jobs[j].retries > 0
    THEN doRun(startTimeout(
           [m EXCEPT !.jobs[j].autoCleanup = req.autoCleanup], j), j)
    ELSE emit(m, j, [Req("abort") EXCEPT
                       !.reason = "max retries already reached"])

(* onRunAbort leaving the retry budget as it is *)
onRunAbortKeepingRetries(m, j, req) ==
  goCancel(
    clearTimeout(
      pushUserDeferred(
        [m EXCEPT !.jobs[j].success = F,
                  !.jobs[j].error = "aborted",
                  !.jobs[j].abort = req.reason], j, req), j), j)

onRunAbort(m, j, req) ==
  goCancel(
    [clearTimeout(
       pushUserDeferred(
         [m EXCEPT !.jobs[j].success = F,
                   !.jobs[j].error = "aborted",
                   !.jobs[j].abort = req.reason], j, req), j)
     EXCEPT !.jobs[j].retries = 0], j)

(* onRetry with the budget test off by one *)
onRetryOffByOne(m, j) ==
  IF m.jobs[j].retries > 0
    THEN emit([m EXCEPT !.jobs[j].retries = @ - 1], j,
              [Req("enterRun") EXCEPT !.autoCleanup = m.jobs[j].autoCleanup])
    ELSE exitOrCleanup(
           [m EXCEPT !.jobs[j].success = F,
                     !.jobs[j].error = "max retries reached"], j)

onRetry(m, j) ==
  IF m.jobs[j].retries > 1
    THEN emit([m EXCEPT !.jobs[j].retries = @ - 1], j,
              [Req("enterRun") EXCEPT !.autoCleanup = m.jobs[j].autoCleanup])
    ELSE exitOrCleanup(
           [m EXCEPT !.jobs[j].success = F,
                     !.jobs[j].error = "max retries reached"], j)

(* onExitRun sending a failed run to CANCEL, as a timeout does *)
onExitRunCancelling(m, j, req) ==
  IF req.success = T
    THEN exitOrCleanup([m EXCEPT !.jobs[j].success = req.success,
                                 !.jobs[j].error = req.error], j)
    ELSE goCancel([m EXCEPT !.jobs[j].success = req.success,
                            !.jobs[j].error = req.error], j)

(* onExitRun leaving without the automatic cleanup *)
onExitRunSkippingCleanup(m, j, req) ==
  doExit([m EXCEPT !.jobs[j].success = req.success,
                   !.jobs[j].error = req.error], j)

onExitRun(m, j, req) ==
  exitOrCleanup([m EXCEPT !.jobs[j].success = req.success,
                          !.jobs[j].error = req.error], j)

handleOnRunState(m, j, req) ==
  CASE req.type = "enterRun" -> onEnterRun(m, j, req)
    [] req.type = "timeout" -> goCancel(m, j)
    [] req.type = "abort" -> onRunAbort(m, j, req)
    [] req.type = "retry" -> onRetry(m, j)
    [] req.type = "exitRun" -> onExitRun(m, j, req)
    [] OTHER -> IF req.w /= NoW THEN rejectRequest(m, j, req) ELSE m

(* onCancelAbort leaving the timer of CANCEL armed *)
onCancelAbortKeepingTimer(m, j, req) ==
  doAbort(pushUserDeferred(
            [m EXCEPT !.jobs[j].abort = req.reason], j, req), j)

onCancelAbort(m, j, req) ==
  doAbort(clearTimeout(
            pushUserDeferred(
              [m EXCEPT !.jobs[j].abort = req.reason], j, req), j), j)

(* onCleanupAbort forgetting the deferred of the abort *)
onCleanupAbortDroppingWaiter(m, j, req) ==
  doExit(clearTimeout([m EXCEPT !.jobs[j].abort = req.reason], j), j)

onCleanupAbort(m, j, req) ==
  doExit(clearTimeout(
           pushUserDeferred(
             [m EXCEPT !.jobs[j].abort = req.reason], j, req), j), j)

onCompletedCleanup(m, j, req) ==
  IF ~Truthy(m.jobs[j].autoCleanup) /\ ~Truthy(m.jobs[j].successCleanup)
    THEN goCleanup(pushUserDeferred(m, j, req), j)
    ELSE rejectRequest(m, j, req)

handleOnCancelState(m, j, req) ==
  CASE req.type = "enterCancel" -> doCancel(startTimeout(m, j), j)
    [] req.type = "abort" -> onCancelAbort(m, j, req)
    [] req.type = "timeout" -> doAbort(m, j)
    [] req.type = "exitCancel" -> doRetry(m, j)
    [] OTHER -> IF req.w /= NoW THEN rejectRequest(m, j, req) ELSE m

(* handleOnCleanupState taking a failed cleanup for the Job's failure *)
handleOnCleanupStateFatal(m, j, req) ==
  CASE req.type = "enterCleanup" -> doCleanup(startTimeout(m, j), j)
    [] req.type = "abort" -> onCleanupAbort(m, j, req)
    [] req.type = "timeout" -> doExit(m, j)
    [] req.type = "exitCleanup" ->
         IF req.success = T
           THEN doExit(m, j)
           ELSE doExit([m EXCEPT !.jobs[j].success = F,
                                 !.jobs[j].error = req.error], j)
    [] OTHER -> IF req.w /= NoW THEN rejectRequest(m, j, req) ELSE m

handleOnCleanupState(m, j, req) ==
  CASE req.type = "enterCleanup" -> doCleanup(startTimeout(m, j), j)
    [] req.type = "abort" -> onCleanupAbort(m, j, req)
    [] req.type = "timeout" -> doExit(m, j)
    [] req.type = "exitCleanup" -> doExit(m, j)
    [] OTHER -> IF req.w /= NoW THEN rejectRequest(m, j, req) ELSE m

(* handleOnCompletedState accepting an abort as the CLEANUP state does *)
handleOnCompletedStateAborting(m, j, req) ==
  CASE req.type = "cleanup" -> onCompletedCleanup(m, j, req)
    [] req.type = "exitCleanup" -> doExit(m, j)
    [] req.type = "abort" -> onCleanupAbort(m, j, req)
    [] OTHER -> IF req.w /= NoW THEN rejectRequest(m, j, req) ELSE m

handleOnCompletedState(m, j, req) ==
  CASE req.type = "cleanup" -> onCompletedCleanup(m, j, req)
    [] req.type = "exitCleanup" -> doExit(m, j)
    [] OTHER -> IF req.w /= NoW THEN rejectRequest(m, j, req) ELSE m

(* the event as the bookkeeping names it: the state it is handled in and  *)
(* its type, an exit event with its outcome                                *)
EventLabel(state, req) ==
  <<state,
    CASE req.type = "exitRun" ->
           IF req.success = T THEN "exitRunOk" ELSE "exitRunFail"
      [] req.type = "exitCancel" ->
           IF req.success = T THEN "exitCancelOk" ELSE "exitCancelFail"
      [] req.type = "exitCleanup" ->
           IF req.success = T THEN "exitCleanupOk" ELSE "exitCleanupFail"
      [] OTHER -> req.type>>

(* the events a case of the state's switch handles; every other event      *)
(* takes the default branch                                                *)
Handled(state, type) ==
  CASE state = "NEW" -> type = "run"
    [] state = "RUN" ->
         type \in {"enterRun", "timeout", "abort", "retry", "exitRun"}
    [] state = "CANCEL" ->
         type \in {"enterCancel", "abort", "timeout", "exitCancel"}
    [] state = "CLEANUP" ->
         type \in {"enterCleanup", "abort", "timeout", "exitCleanup"}
    [] state = "COMPLETED" -> type \in {"cleanup", "exitCleanup"}

handleFSMEvent(m, j, req) ==
  LET st == m.jobs[j].state
      m1 == IF Handled(st, req.type)
              THEN [m EXCEPT !.jobs[j].fsm = @ \cup {EventLabel(st, req)}]
              ELSE m
  IN CASE st = "NEW" -> handleOnNewState(m1, j, req)
       [] st = "RUN" -> handleOnRunState(m1, j, req)
       [] st = "CANCEL" -> handleOnCancelState(m1, j, req)
       [] st = "CLEANUP" -> handleOnCleanupState(m1, j, req)
       [] st = "COMPLETED" -> handleOnCompletedState(m1, j, req)

(* ---- public API: run, abort, cleanup emit a Job:fsm request ---- *)
(* autoCleanup: typeof autoCleanup === "undefined" ? true : autoCleanup *)
AutoCleanupArg(arg) == IF arg = U THEN T ELSE arg

run(m, j, arg, w) ==
  emit(m, j, [Req("run") EXCEPT !.autoCleanup = AutoCleanupArg(arg), !.w = w])

abort(m, j, reason, w) ==
  emit(m, j, [Req("abort") EXCEPT !.reason = reason, !.w = w])

cleanup(m, j, w) == emit(m, j, [Req("cleanup") EXCEPT !.w = w])

(* ---- CompositeJob ---- *)
KindOfType(type) ==
  CASE type = "doRun" -> "run"
    [] type = "doCancel" -> "cancel"
    [] type = "doCleanup" -> "cleanup"

(* req.deferred.resolve() / req.deferred.reject(e): req.deferred is the    *)
(* deferred _doRun, _doCancel or _doCleanup of the composite made          *)
settleComposite(m, j, kind, ok, err) ==
  enqueueReaction(m, SettledTask(j, kind, ok, err))

invalidComposite(m, j, type) ==
  settleComposite(m, j, KindOfType(type), F, "invalid CompositeJob:fsm")

(* priv.steps[priv.currentStepIndex]; 0 stands for undefined *)
StepAt(job) ==
  IF job.currentStepIndex >= 0 /\ job.currentStepIndex < job.totalSteps
    THEN job.steps[job.currentStepIndex + 1]
    ELSE 0

(* a call on priv.steps[i] or priv.runList[i] that is undefined: the       *)
(* TypeError is swallowed by emit, and noted in obs                        *)
derefUndefined(m) == [m EXCEPT !.obs.typeError = TRUE]

(* handleComposedOnRunState leaving the cursor past the last step *)
handleComposedOnRunStateOvershooting(m, j, type) ==
  IF type = "doRun"
    THEN IF m.jobs[j].currentStepIndex < m.jobs[j].totalSteps
           THEN IF StepAt(m.jobs[j]) = 0
                  THEN derefUndefined(m)
                  ELSE run(m, StepAt(m.jobs[j]), F, Waiter("run", "comp", j))
           ELSE settleComposite(m, j, "run", T, U)
    ELSE invalidComposite(m, j, type)

handleComposedOnRunState(m, j, type) ==
  IF type = "doRun"
    THEN IF m.jobs[j].currentStepIndex < m.jobs[j].totalSteps
           THEN IF StepAt(m.jobs[j]) = 0
                  THEN derefUndefined(m)
                  ELSE run(m, StepAt(m.jobs[j]), F, Waiter("run", "comp", j))
           ELSE settleComposite(
                  [m EXCEPT !.jobs[j].currentStepIndex =
                              m.jobs[j].totalSteps - 1], j, "run", T, U)
    ELSE invalidComposite(m, j, type)

handleComposedOnCancelState(m, j, type) ==
  IF type = "doCancel"
    THEN IF StepAt(m.jobs[j]) = 0
           THEN derefUndefined(m)
           ELSE abort(m, StepAt(m.jobs[j]), "CompositeJob Cancel",
                      Waiter("abort", "comp", j))
    ELSE invalidComposite(m, j, type)

handleComposedOnCleanupState(m, j, type) ==
  IF type = "doCleanup"
    THEN IF m.jobs[j].currentStepIndex >= 0
           THEN IF StepAt(m.jobs[j]) = 0
                  THEN derefUndefined(m)
                  ELSE cleanup(m, StepAt(m.jobs[j]),
                               Waiter("cleanup", "comp", j))
           ELSE settleComposite(m, j, "cleanup", T, U)
    ELSE invalidComposite(m, j, type)

handleComposedFSMEvent(m, j, type) ==
  CASE m.jobs[j].state = "RUN" -> handleComposedOnRunState(m, j, type)
    [] m.jobs[j].state = "CANCEL" -> handleComposedOnCancelState(m, j, type)
    [] m.jobs[j].state = "CLEANUP" -> handleComposedOnCleanupState(m, j, type)
    [] OTHER -> m

(* Progress counting the steps from 1 *)
ProgressOneBased(p, job, ok, err) ==
  [job |-> p, index |-> job.currentStepIndex + 1, total |-> job.totalSteps,
   success |-> ok, error |-> err]

Progress(p, job, ok, err) ==
  [job |-> p, index |-> job.currentStepIndex, total |-> job.totalSteps,
   success |-> ok, error |-> err]

onStepRunRegardless(m, p, c) ==
  emitComposite(
    [m EXCEPT !.obs.progress =
                Append(@, Progress(p, m.jobs[p], m.jobs[c].success,
                                   m.jobs[c].error)),
              !.jobs[p].currentStepIndex = @ + 1], p, "doRun")

(* runStep(priv.ctx).then(function () {...}) of doRun; c is jobStep *)
onStepRun(m, p, c) ==
  LET m1 == [m EXCEPT !.obs.progress =
                        Append(@, Progress(p, m.jobs[p], m.jobs[c].success,
                                           m.jobs[c].error))]
  IN IF Truthy(m.jobs[c].success)
       THEN emitComposite([m1 EXCEPT !.jobs[p].currentStepIndex = @ + 1],
                          p, "doRun")
       ELSE settleComposite(m1, p, "run", F, m.jobs[c].error)

(* jobStep.abort("CompositeJob Cancel").then(function () {...}) *)
onStepAbort(m, p, c) ==
  abort([m EXCEPT !.jobs[p].currentStepIndex = @ - 1], p,
        "CompositeJob cancel", Waiter("abort", "self", 0))

onStepCleanupSkipping(m, p, c) ==
  LET m1 == [m EXCEPT !.obs.cleanupProgress =
                        Append(@, Progress(p, m.jobs[p],
                                           m.jobs[c].successCleanup,
                                           m.jobs[c].errorCleanup))]
  IN IF Truthy(m.jobs[c].successCleanup)
       THEN emitComposite([m1 EXCEPT !.jobs[p].currentStepIndex = @ - 2],
                          p, "doCleanup")
       ELSE settleComposite(m1, p, "cleanup", F, m.jobs[c].errorCleanup)

(* cleanStep().then(function () {...}) of doCleanup; c is jobStep *)
onStepCleanup(m, p, c) ==
  LET m1 == [m EXCEPT !.obs.cleanupProgress =
                        Append(@, Progress(p, m.jobs[p],
                                           m.jobs[c].successCleanup,
                                           m.jobs[c].errorCleanup))]
  IN IF Truthy(m.jobs[c].successCleanup)
       THEN emitComposite([m1 EXCEPT !.jobs[p].currentStepIndex = @ - 1],
                          p, "doCleanup")
       ELSE settleComposite(m1, p, "cleanup", F, m.jobs[c].errorCleanup)

(* ---- JobScheduler ---- *)
(* isBusy counting the Job that is running as well *)
isBusyWhileRunning(m) ==
  \/ Len(m.sched.queue) > 0
  \/ \E j \in 1..Len(m.jobs) :
       m.jobs[j].parent = 0 /\ m.jobs[j].state \in {"RUN", "CANCEL", "CLEANUP"}

isBusy(m) == Len(m.sched.queue) > 0

processQueueFromTail(m) ==
  IF Len(m.sched.queue) > 0
    THEN run([m EXCEPT !.sched.queue = SubSeq(@, 1, Len(@) - 1)],
             m.sched.queue[Len(m.sched.queue)], U, Waiter("run", "sched", 0))
    ELSE m

processQueue(m) ==
  IF Len(m.sched.queue) > 0
    THEN run([m EXCEPT !.sched.queue = Tail(@)], Head(m.sched.queue), U,
             Waiter("run", "sched", 0))
    ELSE m

(* emit(this, "pushed", job) with the listener of the onPushed option *)
emitPushed(m, j) ==
  LET m1 == [m EXCEPT !.obs.pushed = Append(@, j)]
  IN IF m.sched.onPushed
       THEN [m1 EXCEPT !.stack = <<SchedTask("processQueue")>> \o @]
       ELSE m1

(* emit(this, "completed", job) with the listener of onCompleted *)
emitCompleted(m, j) ==
  LET m1 == [m EXCEPT !.obs.completed = Append(@, j)]
  IN IF m.sched.onCompleted
       THEN [m1 EXCEPT !.stack = <<SchedTask("processQueue")>> \o @]
       ELSE m1

(* enqueueJob without the failOnBusy test *)
enqueueJobIgnoringBusy(m, job, steps, failOnBusy) ==
  LET j == Len(m.jobs) + 1
      n == Len(steps)
      cj == [job EXCEPT !.steps = [i \in 1..n |-> j + i],
                        !.totalSteps = n]
      cs == [i \in 1..n |-> [steps[i] EXCEPT !.parent = j]]
  IN emitPushed(
       [m EXCEPT !.jobs = @ \o <<cj>> \o cs,
                 !.sched.queue = Append(@, j)], j)

(* enqueueJob(jobConfig): job is the Job or CompositeJob constructed from  *)
(* jobConfig, steps the Jobs of jobConfig.steps                            *)
enqueueJob(m, job, steps, failOnBusy) ==
  IF failOnBusy /\ isBusy(m)
    THEN [m EXCEPT !.obs.nulls = @ + 1]
    ELSE LET j == Len(m.jobs) + 1
             n == Len(steps)
             cj == [job EXCEPT !.steps = [i \in 1..n |-> j + i],
                               !.totalSteps = n]
             cs == [i \in 1..n |-> [steps[i] EXCEPT !.parent = j]]
         IN emitPushed(
              [m EXCEPT !.jobs = @ \o <<cj>> \o cs,
                        !.sched.queue = Append(@, j)], j)

(* ---- promise reactions ---- *)
(* the callback attached to the promise of a resolved userDeferred *)
onResolved(m, j, w) ==
  CASE w.by = "user" -> [m EXCEPT !.jobs[j].nres[w.k] = @ + 1]
    [] w.by = "sched" -> emitCompleted(m, j)
    [] w.by = "comp" /\ w.k = "run" -> onStepRun(m, w.p, j)
    [] w.by = "comp" /\ w.k = "abort" -> onStepAbort(m, w.p, j)
    [] w.by = "comp" /\ w.k = "cleanup" -> onStepCleanup(m, w.p, j)
    [] OTHER -> m

(* ---- one event-loop turn ---- *)
ExecTask(m, t) ==
  CASE t.t = "fsm" -> handleFSMEvent(m, t.j, t.req)
    [] t.t = "cfsm" -> handleComposedFSMEvent(m, t.j, t.req.type)
    [] t.t = "settled" ->
         onSettled(m, t.j, t.req.type, t.req.success, t.req.error)
    [] t.t = "resolved" -> onResolved(m, t.j, t.req.w)
    [] t.t = "processQueue" -> processQueue(m)

(* dispatch the synchronous emits first, then the promise reactions in     *)
(* order, until both are exhausted or control enters a caller's handler    *)
(* (CHOOSE over the singleton binds the record once, as a value)           *)
RECURSIVE RunTurn(_)
RunTurn(m0) ==
  CHOOSE r \in
    {IF m.call /= NoCall THEN m
     ELSE IF m.stack /= <<>>
       THEN RunTurn(ExecTask([m EXCEPT !.stack = Tail(@)], Head(m.stack)))
     ELSE IF m.micro /= <<>>
       THEN RunTurn(ExecTask([m EXCEPT !.micro = Tail(@)], Head(m.micro)))
     ELSE m : m \in {m0}} : TRUE

Idle == call = NoCall

JobIds == 1..Len(jobs)

TopJobs == {j \in JobIds : jobs[j].parent = 0}

ErrorOf(kind) ==
  CASE kind = "run" -> "runError"
    [] kind = "cancel" -> "cancelError"
    [] kind = "cleanup" -> "cleanupError"

ThrownOf(kind) ==
  CASE kind = "run" -> "runThrown"
    [] kind = "cancel" -> "cancelThrown"
    [] kind = "cleanup" -> "cleanupThrown"

(* ---- actions ---- *)
(* the caller makes at most MaxCalls API calls on one Job *)
ApiBudget(j) ==
  jobs[j].napi["run"] + jobs[j].napi["abort"] + jobs[j].napi["cleanup"]
    < (IF jobs[j].kind = "comp" THEN MaxCompositeCalls ELSE MaxCalls)

(* the caller calls job.run(ctx, arg) *)
UserRun(j, arg) ==
  /\ Idle
  /\ ApiBudget(j)
  /\ Commit(RunTurn(run([Cur EXCEPT !.jobs[j].napi["run"] = @ + 1], j, arg,
                        Waiter("run", "user", 0))))

(* the reason the caller gives: a different one from the second call on *)
AbortReason(j) ==
  IF jobs[j].napi["abort"] = 0 THEN "abortReason" ELSE "abortReason2"

(* the caller calls job.abort(reason) *)
UserAbort(j, reason) ==
  /\ Idle
  /\ ApiBudget(j)
  /\ Commit(RunTurn(abort([Cur EXCEPT !.jobs[j].napi["abort"] = @ + 1], j,
                          reason,
                          Waiter("abort", "user", 0))))

(* the caller calls job.cleanup() *)
UserCleanup(j) ==
  /\ Idle
  /\ ApiBudget(j)
  /\ Commit(RunTurn(cleanup([Cur EXCEPT !.jobs[j].napi["cleanup"] = @ + 1], j,
                            Waiter("cleanup", "user", 0))))

(* a timer set by _startTimeout fires: delete priv.runningTimeout; emit *)
TimerFire(j) ==
  /\ Idle
  /\ jobs[j].timers > 0
  /\ Commit(RunTurn(emit(
       [Cur EXCEPT !.jobs[j].timers = @ - 1,
                   !.jobs[j].runningTimeout = FALSE],
       j, Req("timeout"))))

(* a handler of the caller signals a deferred it was given earlier:        *)
(* deferred.resolve() or deferred.reject(e), on the deferred of the latest *)
(* call of the handler or on the deferred of an earlier call               *)
Settle(j, kind, ok, latest) ==
  /\ Idle
  /\ jobs[j].kind = "leaf"
  /\ IF latest
       THEN jobs[j].cur[kind] = "pending"
       ELSE jobs[j].npend[kind] >
              (IF jobs[j].cur[kind] = "pending" THEN 1 ELSE 0)
  /\ Commit(RunTurn(enqueueReaction(
       [Cur EXCEPT !.jobs[j].npend[kind] = @ - 1,
                   !.jobs[j].cur[kind] = IF latest THEN ok ELSE @,
                   !.jobs[j].sig = @ \cup {<<kind, ok>>}],
       SettledTask(j, kind, ok, IF ok = T THEN U ELSE ErrorOf(kind)))))

(* the handler entered by _doRun, _doCancel or _doCleanup returns with its *)
(* deferred unsettled, or throws                                           *)
HandlerReturn(throws) ==
  /\ call /= NoCall
  /\ LET m == [Cur EXCEPT !.call = NoCall]
     IN IF throws
          THEN Commit(RunTurn(onThrown(
                 [m EXCEPT !.jobs[call.j].sig =
                             @ \cup {<<call.kind, "thrown">>}],
                 call.j, call.kind, ThrownOf(call.kind))))
          ELSE Commit(RunTurn([m EXCEPT !.jobs[call.j].npend[call.kind] =
                                          @ + 1,
                                        !.jobs[call.j].cur[call.kind] =
                                          "pending"]))

NoObs ==
  [calls |-> <<>>, progress |-> <<>>, cleanupProgress |-> <<>>,
   pushed |-> <<>>, completed |-> <<>>, nulls |-> 0, typeError |-> FALSE]

(* nprocess: the processQueue calls made by the caller (0, 1, or 2 for    *)
(* more than one)                                                          *)
NoSched ==
  [queue |-> <<>>, onPushed |-> FALSE, onCompleted |-> FALSE, nprocess |-> 0]

(* ---- a single Job driven by its caller ---- *)
Init ==
  /\ \E mr \in 0..MaxRetries, to \in BOOLEAN :
       jobs = <<NewJob("leaf", mr, to, <<>>, 0)>>
  /\ sched = NoSched
  /\ obs = NoObs
  /\ stack = <<>>
  /\ micro = <<>>
  /\ call = NoCall

Next ==
  \/ \E j \in TopJobs, arg \in {U, T, F} : UserRun(j, arg)
  \/ \E j \in TopJobs : UserAbort(j, AbortReason(j))
  \/ \E j \in TopJobs : UserCleanup(j)
  \/ \E j \in JobIds : TimerFire(j)
  \/ \E j \in JobIds, kind \in Kinds, ok \in {T, F}, latest \in BOOLEAN :
       Settle(j, kind, ok, latest)
  \/ \E throws \in BOOLEAN : HandlerReturn(throws)

Spec == Init /\ [][Next]_vars

(* ---- a CompositeJob of n steps driven by its caller ---- *)
(* CompositeJob({steps: [Step(...), ...], timeout, maxRetries}): job 1 is  *)
(* the composite, jobs 2..n+1 are its steps                                *)
StepConfigs == [maxRetries : {0}, timeout : BOOLEAN]

InitComposite ==
  /\ \E n \in 0..MaxSteps, mr \in {0, MaxRetries}, to \in BOOLEAN :
       \E cfg \in [1..n -> StepConfigs] :
         jobs = <<NewJob("comp", mr, to, [i \in 1..n |-> i + 1], 0)>>
                \o [i \in 1..n |->
                      NewJob("leaf", cfg[i].maxRetries, cfg[i].timeout,
                             <<>>, 1)]
  /\ sched = NoSched
  /\ obs = NoObs
  /\ stack = <<>>
  /\ micro = <<>>
  /\ call = NoCall

SpecComposite == InitComposite /\ [][Next]_vars

(* ---- a JobScheduler and its caller ---- *)
(* JobScheduler({state, onPushed, onCompleted}): the listeners, when       *)
(* given, call processQueue                                                *)
InitSched ==
  /\ jobs = <<>>
  /\ \E p \in BOOLEAN, c \in BOOLEAN :
       sched = [NoSched EXCEPT !.onPushed = p, !.onCompleted = c]
  /\ obs = NoObs
  /\ stack = <<>>
  /\ micro = <<>>
  /\ call = NoCall

(* the caller calls enqueueJob({failOnBusy}), at most MaxJobs times *)
Enqueue(failOnBusy) ==
  /\ Idle
  /\ Len(obs.pushed) + obs.nulls < MaxJobs
  /\ Commit(RunTurn(enqueueJob(
       Cur, NewJob("leaf", 0, FALSE, <<>>, 0), <<>>, failOnBusy)))

(* the caller calls processQueue() *)
ProcessQueue ==
  /\ Idle
  /\ Commit(RunTurn(processQueue(
       [Cur EXCEPT !.sched.nprocess = IF @ < 2 THEN @ + 1 ELSE @])))

NextSched ==
  \/ \E failOnBusy \in BOOLEAN : Enqueue(failOnBusy)
  \/ ProcessQueue
  \/ \E j \in JobIds, kind \in Kinds, ok \in {T, F}, latest \in BOOLEAN :
       Settle(j, kind, ok, latest)
  \/ \E throws \in BOOLEAN : HandlerReturn(throws)

SpecSched == InitSched /\ [][NextSched]_vars

(* ---- a JobScheduler serving one Job that its caller may abort ---- *)
(* the caller calls enqueueJob({maxRetries, timeout}) on the new scheduler *)
EnqueueFirst(maxRetries, to) ==
  /\ Idle
  /\ jobs = <<>>
  /\ Commit(RunTurn(enqueueJob(
       Cur, NewJob("leaf", maxRetries, to, <<>>, 0), <<>>, FALSE)))

NextSchedJob ==
  \/ \E mr \in 0..MaxRetries, to \in BOOLEAN : EnqueueFirst(mr, to)
  \/ ProcessQueue
  \/ \E j \in TopJobs : UserAbort(j, AbortReason(j))
  \/ \E j \in JobIds : TimerFire(j)
  \/ \E j \in JobIds, kind \in Kinds, ok \in {T, F}, latest \in BOOLEAN :
       Settle(j, kind, ok, latest)
  \/ \E throws \in BOOLEAN : HandlerReturn(throws)

SpecSchedJob == InitSched /\ [][NextSchedJob]_vars

(* ---- the job-scheduler module of JobStep and JobPrivateAPI ---- *)
(* Job({steps: [...]}) after JobPrivateAPI.init: job 1 is the Job, its     *)
(* steps are numbered 0..totalSteps-1.  pending, calls, errors and         *)
(* completed are bookkeeping: the deferred of the current step that is not *)
(* settled yet, the handlers invoked, the "error" events and the success   *)
(* of each "completed" event; stuck notes an exception that ended a        *)
(* promise callback.  errorStepIndex is <<>> while undefined, else <<i>>   *)
NewStepsJob(n) ==
  [kind |-> "steps", parent |-> 0, totalSteps |-> n, currentStepIndex |-> 0,
   error |-> U, errorStepIndex |-> <<>>, success |-> U, started |-> FALSE,
   pending |-> "none", calls |-> <<>>, progress |-> <<>>,
   cleanupProgress |-> <<>>, errors |-> 0, completed |-> <<>>,
   stuck |-> FALSE]

(* JobStepPrivateAPI.run / JobStepPrivateAPI.cleanup: a new deferred, then *)
(* step.run(state, deferred) or step.cleanup(state, deferred)              *)
callStep(m, kind) ==
  [m EXCEPT !.jobs[1].calls = Append(@, <<kind, m.jobs[1].currentStepIndex>>),
            !.call = [j |-> 1, kind |-> kind]]

(* an exception that leaves a callback of then: the promise machinery      *)
(* swallows it and the callback's remaining statements are not run         *)
thrownInCallback(m) == [m EXCEPT !.jobs[1].stuck = TRUE]

(* job.steps[priv.errorStepIndex].toString() *)
JobPrivateAPI_reportError(m) ==
  IF m.jobs[1].errorStepIndex = <<>>
    THEN thrownInCallback(m)
    ELSE [m EXCEPT !.jobs[1].errors = @ + 1]

JobPrivateAPI_reportProgress(m) ==
  [m EXCEPT !.jobs[1].progress = Append(@, m.jobs[1].currentStepIndex)]

JobPrivateAPI_reportCleanupProgress(m) ==
  [m EXCEPT !.jobs[1].cleanupProgress = Append(@, m.jobs[1].currentStepIndex)]

(* priv.success = priv.error ? false : true; emit(job, "completed", priv) *)
JobPrivateAPI_reportCompleted(m) ==
  LET success == IF Truthy(m.jobs[1].error) THEN F ELSE T
  IN [m EXCEPT !.jobs[1].success = success,
               !.jobs[1].completed = Append(@, success)]

JobPrivateAPI_cleanup(m) ==
  IF m.jobs[1].currentStepIndex >= 0
    THEN IF m.jobs[1].currentStepIndex < m.jobs[1].totalSteps
           THEN callStep(m, "cleanup")
           ELSE thrownInCallback(m)
    ELSE JobPrivateAPI_reportCompleted(m)

JobPrivateAPI_run(m) ==
  IF m.jobs[1].currentStepIndex < m.jobs[1].totalSteps
    THEN callStep(m, "run")
    ELSE JobPrivateAPI_cleanup(
           [m EXCEPT !.jobs[1].currentStepIndex = m.jobs[1].totalSteps - 1])

(* currentStep().then(function resolved() {...}, ...) of run *)
onRunResolved(m) ==
  LET m1 == JobPrivateAPI_reportProgress(m)
  IN JobPrivateAPI_run([m1 EXCEPT !.jobs[1].currentStepIndex = @ + 1])

(* currentStep().then(..., function rejected(error) {...}) of run *)
onRunRejected(m, error) ==
  JobPrivateAPI_cleanup(
    JobPrivateAPI_reportError(
      [m EXCEPT !.jobs[1].error = error,
                !.jobs[1].errorStepIndex = <<m.jobs[1].currentStepIndex>>]))

(* runStep(true).then(function resolved() {...}, ...) of cleanup *)
onCleanupResolved(m) ==
  LET m1 == JobPrivateAPI_reportCleanupProgress(m)
  IN JobPrivateAPI_cleanup([m1 EXCEPT !.jobs[1].currentStepIndex = @ - 1])

(* onCleanupRejected ending the cleanup at the step that failed *)
onCleanupRejectedStopping(m, error) ==
  LET m1 == JobPrivateAPI_reportError([m EXCEPT !.jobs[1].error = error])
  IN IF m1.jobs[1].stuck
       THEN m1
       ELSE JobPrivateAPI_reportCompleted(m1)

(* runStep(true).then(..., function rejected(error) {...}) of cleanup *)
onCleanupRejected(m, error) ==
  LET m1 == JobPrivateAPI_reportError([m EXCEPT !.jobs[1].error = error])
  IN IF m1.jobs[1].stuck
       THEN m1
       ELSE JobPrivateAPI_cleanup(
              [m1 EXCEPT !.jobs[1].currentStepIndex = @ - 1])

(* the reactions to the deferred of the current step *)
onStepSettled(m, kind, ok, error) ==
  CASE kind = "run" /\ ok = T -> onRunResolved(m)
    [] kind = "run" /\ ok = F -> onRunRejected(m, error)
    [] kind = "cleanup" /\ ok = T -> onCleanupResolved(m)
    [] kind = "cleanup" /\ ok = F -> onCleanupRejected(m, error)

(* JobPrivateAPI.init(job, {}); JobPrivateAPI.run(job) *)
StartSteps ==
  /\ Idle
  /\ ~jobs[1].started
  /\ Commit(JobPrivateAPI_run([Cur EXCEPT !.jobs[1].started = TRUE]))

(* the step's handler returns, or throws: JobStepPrivateAPI.run catches    *)
(* and rejects the deferred, JobStepPrivateAPI.cleanup does not catch and  *)
(* the exception leaves the callback that called JobPrivateAPI.cleanup     *)
StepReturn(throws) ==
  /\ call /= NoCall
  /\ LET m == [Cur EXCEPT !.call = NoCall]
     IN IF ~throws
          THEN Commit([m EXCEPT !.jobs[1].pending = call.kind])
          ELSE IF call.kind = "run"
                 THEN Commit(onRunRejected(m, ThrownOf("run")))
                 ELSE Commit(thrownInCallback(m))

(* the step resolves or rejects the deferred it was given *)
StepSettle(ok) ==
  /\ Idle
  /\ jobs[1].pending /= "none"
  /\ Commit(onStepSettled([Cur EXCEPT !.jobs[1].pending = "none"],
                          jobs[1].pending, ok, ErrorOf(jobs[1].pending)))

(* JobPrivateAPI.cancel(job, reason): rejects the deferred of the current  *)
(* step, "cancelled: " + step + "," + reason                               *)
CancelStep ==
  /\ Idle
  /\ jobs[1].pending /= "none"
  /\ Commit(onStepSettled([Cur EXCEPT !.jobs[1].pending = "none"],
                          jobs[1].pending, F, "cancelled"))

InitSteps ==
  /\ \E n \in 0..MaxJobSteps : jobs = <<NewStepsJob(n)>>
  /\ sched = NoSched
  /\ obs = NoObs
  /\ stack = <<>>
  /\ micro = <<>>
  /\ call = NoCall

NextSteps ==
  \/ StartSteps
  \/ \E throws \in BOOLEAN : StepReturn(throws)
  \/ \E ok \in {T, F} : StepSettle(ok)
  \/ CancelStep

SpecSteps == InitSteps /\ [][NextSteps]_vars

(* armed timers fire and a handler that was entered returns or throws *)
FairSpec ==
  /\ Spec
  /\ WF_vars(\E j \in JobIds : TimerFire(j))
  /\ WF_vars(\E throws \in BOOLEAN : HandlerReturn(throws))

(* ---- properties of a single Job (job 1 of Spec) ---- *)
Budget(job) == InitRetries(job.maxRetries)

RunSignals == {<<"run", T>>, <<"run", F>>, <<"run", "thrown">>}

(* C1: a Job with a timeout whose run() was accepted eventually is         *)
(* COMPLETED with its run promise resolved exactly once, whatever the      *)
(* handlers do.                                                            *)
C1_TerminalCompletion ==
  (jobs[1].timeout /\ jobs[1].state /= "NEW")
    ~> (jobs[1].state = "COMPLETED" /\ jobs[1].nres["run"] = 1)

C2_Scenario ==
  /\ jobs[1].state = "COMPLETED"
  /\ jobs[1].timeout
  /\ jobs[1].autoCleanup = T
  /\ jobs[1].napi["abort"] = 0
  /\ jobs[1].sig \cap RunSignals = {}

C2_Outcome ==
  /\ jobs[1].ncalls["run"] = Budget(jobs[1])
  /\ jobs[1].ncalls["cancel"] = Budget(jobs[1])
  /\ jobs[1].ncalls["cleanup"] = 1
  /\ jobs[1].success = F
  /\ jobs[1].error = "max retries reached"

(* C2 as claimed: with a timeout, auto-cleanup, no abort and a handleRun   *)
(* that never completes, the Job completes after exactly N runs, N         *)
(* cancels and one cleanup, failed with "max retries reached".             *)
C2_RetryBudgetAsClaimed == C2_Scenario => C2_Outcome

(* C2: the same, provided no CANCEL phase ends by its timeout. *)
C2_RetryBudget ==
  (C2_Scenario /\ <<"CANCEL", "timeout">> \notin jobs[1].fsm) => C2_Outcome

C2_Witness ==
  /\ C2_Scenario
  /\ <<"CANCEL", "timeout">> \notin jobs[1].fsm
  /\ jobs[1].maxRetries = MaxRetries
  /\ jobs[1].ncalls["run"] = MaxRetries
  /\ jobs[1].ncalls["cancel"] = MaxRetries

(* the step in which a failure of handleRun ends the RUN phase *)
RunFailureDelivered ==
  /\ <<"RUN", "exitRunFail">> \notin jobs[1].fsm
  /\ <<"RUN", "exitRunFail">> \in jobs'[1].fsm

(* C9 as claimed: a run failure with max_retries > 1 takes the Job from    *)
(* RUN to CANCEL (and from there back to RUN).                             *)
C9_RunFailureRetriesAsClaimed ==
  [][(RunFailureDelivered /\ jobs[1].retries > 1)
       => jobs'[1].state = "CANCEL"]_vars

(* C9: a run failure ends the Job's RUN for good, whatever the budget: the *)
(* Job records the failure and goes to CLEANUP or COMPLETED without        *)
(* entering CANCEL and without spending a retry.                           *)
C9_RunFailureEndsRun ==
  [][RunFailureDelivered
       => /\ jobs'[1].state \in {"CLEANUP", "COMPLETED"}
          /\ jobs'[1].state = "CLEANUP" <=> jobs[1].autoCleanup = T
          /\ jobs'[1].success = F
          /\ jobs'[1].error \in {"runError", "runThrown"}
          /\ jobs'[1].ncalls["run"] = jobs[1].ncalls["run"]
          /\ jobs'[1].ncalls["cancel"] = jobs[1].ncalls["cancel"]
          /\ jobs'[1].retries = jobs[1].retries]_vars

C9_Witness ==
  /\ jobs[1].maxRetries > 1
  /\ <<"RUN", "exitRunFail">> \in jobs[1].fsm
  /\ jobs[1].state = "COMPLETED"
  /\ jobs[1].retries > 1
  /\ jobs[1].ncalls["run"] = 1
  /\ jobs[1].ncalls["cancel"] = 0

(* C10: with the default budget and auto-cleanup, a Job whose RUN ended by *)
(* a failure of handleRun completes after one run, no cancel and one       *)
(* cleanup, with success = false and the rejected or thrown error.         *)
C10_RunErrorDefaultBudget ==
  (/\ jobs[1].state = "COMPLETED"
   /\ Budget(jobs[1]) = 1
   /\ jobs[1].autoCleanup = T
   /\ <<"RUN", "exitRunFail">> \in jobs[1].fsm)
  => /\ jobs[1].ncalls["run"] = 1
     /\ jobs[1].ncalls["cancel"] = 0
     /\ jobs[1].ncalls["cleanup"] = 1
     /\ jobs[1].success = F
     /\ jobs[1].error = IF <<"run", "thrown">> \in jobs[1].sig
                          THEN "runThrown" ELSE "runError"

C10_Witness ==
  /\ jobs[1].state = "COMPLETED"
  /\ jobs[1].maxRetries = 0
  /\ jobs[1].autoCleanup = T
  /\ <<"run", "thrown">> \in jobs[1].sig
  /\ jobs[1].error = "runThrown"
  /\ jobs[1].ncalls["cleanup"] = 1


(* the first handleRun resolved and ended the RUN phase, with autoCleanup *)
FirstRunResolved ==
  /\ <<"RUN", "exitRunOk">> \in jobs[1].fsm
  /\ <<"RUN", "timeout">> \notin jobs[1].fsm
  /\ <<"RUN", "abort">> \notin jobs[1].fsm
  /\ jobs[1].autoCleanup = T

(* C11: when the first handleRun resolves (autoCleanup on) the Job has     *)
(* success = true and no error, handleCancel is never invoked,             *)
(* handleCleanup is invoked exactly once, and the run promise resolves     *)
(* once, only when the Job is COMPLETED after that cleanup                 *)
C11_SuccessfulRun ==
  FirstRunResolved =>
    /\ jobs[1].success = T
    /\ jobs[1].error = U
    /\ jobs[1].ncalls["run"] = 1
    /\ jobs[1].ncalls["cancel"] = 0
    /\ jobs[1].ncalls["cleanup"] = 1
    /\ jobs[1].state \in {"CLEANUP", "COMPLETED"}
    /\ jobs[1].nres["run"] <= 1
    /\ jobs[1].nres["run"] = 1 => jobs[1].state = "COMPLETED"

C11_Witness ==
  /\ FirstRunResolved
  /\ jobs[1].state = "COMPLETED"
  /\ jobs[1].nres["run"] = 1
  /\ <<"CLEANUP", "exitCleanupOk">> \in jobs[1].fsm

(* abort was called while the Job was in RUN, run with autoCleanup *)
AbortedInRun ==
  <<"RUN", "abort">> \in jobs[1].fsm /\ jobs[1].autoCleanup = T

JobFields(job) ==
  <<job.state, job.retries, job.autoCleanup, job.success, job.error,
    job.abort, job.successCancel, job.errorCancel, job.successCleanup,
    job.errorCleanup, job.userDeferred, job.runningTimeout, job.timers>>

(* C13: whatever aborts are called and however they interleave with the    *)
(* handlers' completions, a Job on which cleanup() is not called enters    *)
(* COMPLETED once and stays there, and handleCleanup is invoked at most    *)
(* once; an abort called on a COMPLETED Job is rejected and changes no     *)
(* field of the Job                                                        *)
C13_AbortIdempotence ==
  [][jobs'[1].napi["cleanup"] = 0 =>
       /\ jobs[1].state = "COMPLETED" => jobs'[1].state = "COMPLETED"
       /\ jobs'[1].ncalls["cleanup"] <= 1
       /\ (/\ jobs[1].state = "COMPLETED"
           /\ jobs'[1].napi["abort"] = jobs[1].napi["abort"] + 1) =>
            /\ JobFields(jobs'[1]) = JobFields(jobs[1])
            /\ jobs'[1].ncalls = jobs[1].ncalls
            /\ jobs'[1].nrej = jobs[1].nrej + 1
            /\ jobs'[1].nres = jobs[1].nres]_vars

(* two aborts accepted, in RUN and in CANCEL or CLEANUP *)
C13_Witness ==
  /\ jobs[1].state = "COMPLETED"
  /\ jobs[1].napi["abort"] = 2
  /\ jobs[1].nres["abort"] = 2
  /\ jobs[1].nres["run"] = 1
  /\ jobs[1].ncalls["cleanup"] = 1

(* the step is the completion, signalled during a RUN attempt, of the      *)
(* deferred of an earlier handleRun call: one unsettled run deferred       *)
(* fewer, the deferred of the latest call still unsettled                  *)
StaleRunCompletion ==
  /\ jobs[1].state = "RUN"
  /\ jobs[1].cur["run"] = "pending"
  /\ jobs'[1].cur["run"] = "pending"
  /\ jobs'[1].npend["run"] = jobs[1].npend["run"] - 1

(* C14: the completion of the deferred of a handleRun call whose attempt   *)
(* timed out does not end a later RUN attempt and does not change the      *)
(* Job's success and error                                                 *)
C14_AtMostOncePerAttempt ==
  [][StaleRunCompletion =>
       /\ jobs'[1].state = "RUN"
       /\ jobs'[1].success = jobs[1].success
       /\ jobs'[1].error = jobs[1].error]_vars

(* an earlier RUN attempt timed out, and the latest attempt was ended      *)
(* neither by a timeout nor by an abort (each of those invokes             *)
(* handleCancel) and its handleRun resolved its deferred                   *)
RetryResolved ==
  /\ <<"RUN", "timeout">> \in jobs[1].fsm
  /\ jobs[1].ncalls["cancel"] < jobs[1].ncalls["run"]
  /\ jobs[1].cur["run"] = T

(* C15: when an earlier attempt timed out and a later attempt resolves,    *)
(* the Job has success = true and no error                                 *)
C15_SuccessfulRetry ==
  RetryResolved => (jobs[1].success = T /\ jobs[1].error = U)

(* the step in which handleCancel throws / rejects its deferred *)
CancelThrows ==
  /\ call.kind = "cancel"
  /\ call' /= call
  /\ jobs'[1].npend["cancel"] = jobs[1].npend["cancel"]

CancelRejects ==
  jobs[1].cur["cancel"] = "pending" /\ jobs'[1].cur["cancel"] = F

(* C16: when handleCancel rejects or throws, successCancel = false and     *)
(* errorCancel = the error are recorded, a Job in CANCEL goes on as after  *)
(* a successful cancel (the next RUN attempt, or CLEANUP / COMPLETED with  *)
(* "max retries reached"), and the Job's error is never the cancel error   *)
C16_CancelFailureNonFatal ==
  [][/\ jobs'[1].error \notin {"cancelError", "cancelThrown"}
     /\ (CancelThrows \/ CancelRejects) =>
          /\ jobs'[1].successCancel = F
          /\ jobs'[1].errorCancel =
               (IF CancelThrows THEN "cancelThrown" ELSE "cancelError")
          /\ jobs[1].state = "CANCEL" =>
               \/ /\ jobs[1].retries > 1
                  /\ jobs'[1].state = "RUN"
                  /\ jobs'[1].retries = jobs[1].retries - 1
                  /\ jobs'[1].ncalls["run"] = jobs[1].ncalls["run"] + 1
               \/ /\ jobs[1].retries <= 1
                  /\ jobs'[1].state =
                       (IF Truthy(jobs[1].autoCleanup)
                          THEN "CLEANUP" ELSE "COMPLETED")
                  /\ jobs'[1].success = F
                  /\ jobs'[1].error = "max retries reached"]_vars

C16_Witness ==
  /\ jobs[1].state = "COMPLETED"
  /\ <<"CANCEL", "exitCancelFail">> \in jobs[1].fsm
  /\ jobs[1].successCancel = F
  /\ jobs[1].errorCancel = "cancelError"
  /\ jobs[1].ncalls["run"] = 2
  /\ jobs[1].ncalls["cleanup"] = 1

(* the step in which handleCleanup throws / rejects its deferred *)
CleanupThrows ==
  /\ call.kind = "cleanup"
  /\ call' /= call
  /\ jobs'[1].npend["cleanup"] = jobs[1].npend["cleanup"]

CleanupRejects ==
  jobs[1].cur["cleanup"] = "pending" /\ jobs'[1].cur["cleanup"] = F

(* C17: when handleCleanup rejects or throws, successCleanup = false and   *)
(* errorCleanup = the error are recorded and the Job is COMPLETED; from    *)
(* the entry into CLEANUP on, success and error never change               *)
C17_CleanupFailureIsolated ==
  [][/\ jobs[1].state \in {"CLEANUP", "COMPLETED"} =>
          /\ jobs'[1].state \in {"CLEANUP", "COMPLETED"}
          /\ jobs'[1].success = jobs[1].success
          /\ jobs'[1].error = jobs[1].error
     /\ (CleanupThrows \/ CleanupRejects) =>
          /\ jobs'[1].successCleanup = F
          /\ jobs'[1].errorCleanup =
               (IF CleanupThrows THEN "cleanupThrown" ELSE "cleanupError")
          /\ jobs'[1].state = "COMPLETED"]_vars

C17_Witness ==
  /\ jobs[1].state = "COMPLETED"
  /\ <<"CLEANUP", "exitCleanupFail">> \in jobs[1].fsm
  /\ jobs[1].success = F
  /\ jobs[1].error = "runError"
  /\ jobs[1].successCleanup = F
  /\ jobs[1].errorCleanup = "cleanupError"
  /\ jobs[1].nres["run"] = 1

(* C18: handleCleanup is invoked at most once on a Job, whatever run,      *)
(* abort and cleanup calls are made: a cleanup() on a COMPLETED Job whose  *)
(* cleanup already ran is rejected                                         *)
C18_CleanupAtMostOnce == jobs[1].ncalls["cleanup"] <= 1

(* the step is a run() call on a Job not in NEW, or a cleanup() call on a  *)
(* Job in NEW, RUN, CANCEL or CLEANUP                                      *)
InvalidRequest ==
  \/ /\ jobs'[1].napi["run"] = jobs[1].napi["run"] + 1
     /\ jobs[1].state /= "NEW"
  \/ /\ jobs'[1].napi["cleanup"] = jobs[1].napi["cleanup"] + 1
     /\ jobs[1].state /= "COMPLETED"

(* C19: a run() or cleanup() made in a state that forbids it rejects the   *)
(* caller's promise, resolves none, invokes no handler and leaves every    *)
(* field of the Job, its waiters and its timer unchanged                   *)
C19_InvalidTransition ==
  [][InvalidRequest =>
       /\ JobFields(jobs'[1]) = JobFields(jobs[1])
       /\ jobs'[1].nrej = jobs[1].nrej + 1
       /\ jobs'[1].nres = jobs[1].nres
       /\ jobs'[1].ncalls = jobs[1].ncalls]_vars

C19_Witness ==
  /\ jobs[1].state = "RUN"
  /\ jobs[1].napi["run"] = 2
  /\ jobs[1].napi["cleanup"] = 1
  /\ jobs[1].nrej = 2
  /\ Len(jobs[1].userDeferred) = 1

(* the step in which the handler that was entered throws *)
ThrowStep ==
  /\ call /= NoCall
  /\ call' /= call
  /\ jobs'[call.j].npend[call.kind] = jobs[call.j].npend[call.kind]

(* the same handler calling deferred.reject(e) with the same e and         *)
(* returning, instead of throwing                                          *)
RejectInstead ==
  RunTurn(enqueueReaction(
    [Cur EXCEPT !.call = NoCall],
    SettledTask(call.j, call.kind, F, ThrownOf(call.kind))))

(* C23: a handler that throws e takes the Job through the same events, to  *)
(* the same fields, handler calls and resolved promises as the handler     *)
(* that rejects its deferred with e                                        *)
C23_ThrowIsReject ==
  [][ThrowStep =>
       /\ JobFields(jobs'[1]) = JobFields(RejectInstead.jobs[1])
       /\ jobs'[1].fsm = RejectInstead.jobs[1].fsm
       /\ jobs'[1].ncalls = RejectInstead.jobs[1].ncalls
       /\ jobs'[1].nres = RejectInstead.jobs[1].nres
       /\ call' = RejectInstead.call]_vars

C23_Witness ==
  /\ jobs[1].state = "COMPLETED"
  /\ <<"cancel", "thrown">> \in jobs[1].sig
  /\ <<"cleanup", "thrown">> \in jobs[1].sig
  /\ jobs[1].errorCancel = "cancelThrown"
  /\ jobs[1].errorCleanup = "cleanupThrown"
  /\ Truthy(jobs[1].abort)

(* ---- JobScheduler ---- *)
Running(j) == jobs[j].state \in {"RUN", "CANCEL", "CLEANUP"}

(* C3: at most one Job of a JobScheduler is between its entry into RUN     *)
(* and its entry into COMPLETED at any time, whatever the enqueueJob and   *)
(* processQueue calls and whichever listeners call processQueue            *)
C3_MutualExclusion == Cardinality({j \in TopJobs : Running(j)}) <= 1

IsPrefix(s, t) == Len(s) <= Len(t) /\ SubSeq(t, 1, Len(s)) = s

(* the driver calls processQueue once itself and then from the listener    *)
(* of "completed" only                                                     *)
DriverDiscipline ==
  sched.onCompleted /\ ~sched.onPushed /\ sched.nprocess <= 1

(* C4: under the driver discipline the "completed" events fire in the      *)
(* order the jobs were enqueued, without gap or repetition, and every job  *)
(* that reached COMPLETED has had its event                                *)
C4_SchedulerFifo ==
  DriverDiscipline =>
    /\ IsPrefix(obs.completed, obs.pushed)
    /\ \A j \in TopJobs :
         jobs[j].state = "COMPLETED" =>
           \E i \in 1..Len(obs.completed) : obs.completed[i] = j

C4_Witness ==
  DriverDiscipline /\ Len(obs.completed) >= 2 /\ obs.completed = obs.pushed

(* ---- CompositeJob (SpecComposite: job 1 is the composite) ---- *)
(* the index in priv.steps of child c of job 1 *)
IndexOf(c) == CHOOSE i \in 0..(jobs[1].totalSteps - 1) : jobs[1].steps[i + 1] = c

IsChildCleanup(e) == e[2] = "cleanup" /\ jobs[e[1]].parent = 1

(* the indices of the children whose handleCleanup was invoked, in order *)
CleanupIndices ==
  LET s == SelectSeq(obs.calls, IsChildCleanup)
  IN [i \in 1..Len(s) |-> IndexOf(s[i][1])]

IndicesOf(log) == [i \in 1..Len(log) |-> log[i].index]

Elems(s) == {s[i] : i \in 1..Len(s)}

(* n, n - 1, ..., 0 *)
DownFrom(n) == [i \in 1..(n + 1) |-> n + 1 - i]

(* the "progress" events that reported a child's failure *)
Failures == {i \in 1..Len(obs.progress) : ~Truthy(obs.progress[i].success)}

(* the composite never entered CANCEL: neither aborted nor timed out in RUN *)
NoCancel == jobs[1].ncalls["cancel"] = 0

(* C5 as stated: after children 0..k succeeded and child k+1 failed, the   *)
(* children's handleCleanup is invoked at k, k-1, ..., 0 in that order     *)
C5_CleanupReverseAsClaimed ==
  \A i \in Failures :
    (/\ NoCancel
     /\ obs.progress[i].index >= 1
     /\ jobs[1].state = "COMPLETED"
     /\ Truthy(jobs[1].successCleanup))
      => CleanupIndices = DownFrom(obs.progress[i].index - 1)

(* C5: after children 0..k succeeded and child k+1 failed, the children's  *)
(* handleCleanup is invoked first at k+1, then at the same or the next     *)
(* lower index each time, and at every index k+1, ..., 0 once the          *)
(* composite's cleanup has succeeded                                       *)
C5_CleanupReverse ==
  \A i \in Failures :
    NoCancel =>
      LET s == CleanupIndices
      IN /\ Len(s) > 0 => s[1] = obs.progress[i].index
         /\ \A n \in 1..(Len(s) - 1) : s[n + 1] \in {s[n], s[n] - 1}
         /\ (jobs[1].state = "COMPLETED" /\ Truthy(jobs[1].successCleanup))
              => Elems(s) = 0..obs.progress[i].index

C5_Witness ==
  /\ NoCancel
  /\ \E i \in Failures : obs.progress[i].index = 1
  /\ jobs[1].state = "COMPLETED"
  /\ Truthy(jobs[1].successCleanup)
  /\ CleanupIndices = <<1, 0>>

(* the composite ran with autoCleanup, was never aborted, never timed out  *)
(* and its cleanup was requested by nothing else                           *)
PlainRun ==
  /\ NoCancel
  /\ jobs[1].state = "COMPLETED"
  /\ jobs[1].autoCleanup = T
  /\ jobs[1].abort = U
  /\ jobs[1].napi["cleanup"] = 0
  /\ <<"CLEANUP", "timeout">> \notin jobs[1].fsm

(* C6: "cleanupProgress" is emitted for i, i-1, ..., 0 when child i failed *)
(* and for n-1, ..., 0 when all n children succeeded; the composite's      *)
(* success and error are the failing child's, or success is true           *)
C6_CleanupProgress ==
  PlainRun =>
    /\ \A i \in Failures :
         /\ IndicesOf(obs.cleanupProgress) = DownFrom(obs.progress[i].index)
         /\ jobs[1].success = obs.progress[i].success
         /\ jobs[1].error = obs.progress[i].error
    /\ Failures = {} =>
         /\ IndicesOf(obs.cleanupProgress) = DownFrom(jobs[1].totalSteps - 1)
         /\ jobs[1].success = T

(* the "cleanupProgress" events that reported a child's failed cleanup *)
CleanupFailures ==
  {i \in 1..Len(obs.cleanupProgress) :
     ~Truthy(obs.cleanupProgress[i].success)}

(* C7: when the cleanup of child i fails, the composite records the first  *)
(* such error as its errorCleanup and has invoked handleCleanup on every   *)
(* child i-1, ..., 0 by the time it is COMPLETED                           *)
C7_CleanupExhaustive ==
  (PlainRun /\ CleanupFailures /= {}) =>
    LET first == CHOOSE i \in CleanupFailures :
                   \A k \in CleanupFailures : i <= k
    IN /\ jobs[1].errorCleanup = obs.cleanupProgress[first].error
       /\ \A n \in 0..(obs.cleanupProgress[first].index - 1) :
            jobs[jobs[1].steps[n + 1]].ncalls["cleanup"] >= 1

ChildState(n) == jobs[jobs[1].steps[n + 1]].state

(* C8: a child enters RUN only when the child before it is COMPLETED with  *)
(* success, every child before a child that has left NEW has succeeded,    *)
(* and at most one child is in RUN                                         *)
C8_ForwardOrder ==
  [][/\ \A n \in 1..(jobs[1].totalSteps - 1) :
          (ChildState(n) = "NEW" /\ ChildState(n)' /= "NEW") =>
            /\ ChildState(n - 1)' = "COMPLETED"
            /\ jobs'[jobs[1].steps[n]].success = T
     /\ \A n \in 1..(jobs[1].totalSteps - 1) :
          ChildState(n)' /= "NEW" =>
            \A k \in 0..(n - 1) : jobs'[jobs[1].steps[k + 1]].success = T
     /\ Cardinality({n \in 0..(jobs[1].totalSteps - 1) :
                       ChildState(n)' = "RUN"}) <= 1]_vars

C8_Witness ==
  /\ jobs[1].totalSteps = 2
  /\ ChildState(0) = "COMPLETED"
  /\ ChildState(1) = "RUN"

(* C20: enqueueJob with failOnBusy and a non-empty queue returns null,     *)
(* leaves the queue and the jobs as they are and emits no "pushed";        *)
(* otherwise it appends the new Job at the tail of the queue and emits     *)
(* "pushed" once for it; enqueueJob itself leaves the new Job in NEW (a    *)
(* listener of "pushed" that calls processQueue takes the head of the      *)
(* queue)                                                                  *)
C20_Enqueue ==
  [][\A failOnBusy \in BOOLEAN :
       Enqueue(failOnBusy) =>
         IF failOnBusy /\ sched.queue /= <<>>
           THEN /\ obs'.nulls = obs.nulls + 1
                /\ obs'.pushed = obs.pushed
                /\ sched'.queue = sched.queue
                /\ jobs' = jobs
           ELSE LET j == Len(jobs) + 1
                    q == Append(sched.queue, j)
                IN /\ obs'.nulls = obs.nulls
                   /\ obs'.pushed = Append(obs.pushed, j)
                   /\ Len(jobs') = j
                   /\ ~sched.onPushed =>
                        /\ sched'.queue = q
                        /\ jobs'[j].state = "NEW"
                        /\ \A i \in 1..Len(jobs) : jobs'[i] = jobs[i]
                   /\ sched.onPushed =>
                        /\ sched'.queue = Tail(q)
                        /\ jobs'[Head(q)].state /= "NEW"]_vars

C20_Witness ==
  /\ obs.nulls = 1
  /\ obs.pushed = <<1>>
  /\ sched.queue = <<1>>
  /\ jobs[1].state = "NEW"

(* the number of "completed" events emitted for job j *)
CompletedCount(j) ==
  Cardinality({i \in 1..Len(obs.completed) : obs.completed[i] = j})

(* C21: the scheduler has emitted "completed" for a Job exactly once when  *)
(* the Job is COMPLETED and not at all before, whether the Job succeeded,  *)
(* failed, timed out or was aborted                                        *)
C21_CompletionReporting ==
  \A j \in TopJobs :
    CompletedCount(j) = (IF jobs[j].state = "COMPLETED" THEN 1 ELSE 0)

C21_Witness ==
  /\ Len(jobs) = 1
  /\ jobs[1].state = "COMPLETED"
  /\ Truthy(jobs[1].abort)
  /\ <<"RUN", "timeout">> \in jobs[1].fsm
  /\ obs.completed = <<1>>

(* C22: a CompositeJob with maxRetries = N > 1 and a timeout whose forward *)
(* pass times out every time, no cancel phase being cut by its own timeout *)
(* and no caller aborting, has entered RUN N times when it is COMPLETED    *)
(* with "max retries reached"                                              *)
C22_CompositeRetry ==
  (/\ jobs[1].kind = "comp"
   /\ jobs[1].state = "COMPLETED"
   /\ jobs[1].maxRetries > 1
   /\ <<"RUN", "timeout">> \in jobs[1].fsm
   /\ <<"CANCEL", "timeout">> \notin jobs[1].fsm
   /\ jobs[1].napi["abort"] = 0
   /\ jobs[1].error = "max retries reached")
    => jobs[1].ncalls["run"] = jobs[1].maxRetries

(* 0, 1, ..., n - 1 *)
UpTo(n) == [i \in 1..n |-> i - 1]

(* no child's run or cleanup was reported as failed and the composite      *)
(* never entered CANCEL                                                    *)
AllSucceed ==
  /\ jobs[1].kind = "comp"
  /\ NoCancel
  /\ Failures = {}
  /\ CleanupFailures = {}

C25_AbortedJobFailed ==
  (jobs[1].state = "COMPLETED" /\ Truthy(jobs[1].abort)) =>
    jobs[1].success = F

(* C26 as claimed: the reason of the caller's abort, once recorded, is not *)
(* replaced on the way to COMPLETED, neither by a later abort of the       *)
(* caller nor by the composite's own one                                   *)
C26_CallerReason ==
  [][(jobs[1].state /= "COMPLETED" /\ jobs[1].abort = "abortReason") =>
       jobs'[1].abort = "abortReason"]_vars

(* C27 as claimed: a Job or CompositeJob whose abort was never called is   *)
(* COMPLETED with abortReason unset (isAbort false), also when timeouts    *)
(* ended it                                                                *)
C27_NoAbortNoReason ==
  (jobs[1].state = "COMPLETED" /\ jobs[1].napi["abort"] = 0) =>
    jobs[1].abort = U

(* the caller calls abort on a Job that is not COMPLETED *)
AbortCall ==
  /\ jobs'[1].napi["abort"] = jobs[1].napi["abort"] + 1
  /\ jobs[1].state /= "COMPLETED"

(* C28 as claimed: an abort called in NEW, RUN, CANCEL or CLEANUP records  *)
(* its reason as abortReason and leaves the Job without retries            *)
C28_AbortAccepted ==
  [][AbortCall =>
       /\ jobs'[1].abort = AbortReason(1)
       /\ jobs'[1].retries = 0]_vars

(* the caller's abort was handled in RUN (a Job with maxRetries > 0 never  *)
(* aborts itself on entering RUN) and handleRun signalled no failure       *)
AbortedWithoutRunError ==
  /\ jobs[1].maxRetries > 0
  /\ <<"RUN", "abort">> \in jobs[1].fsm
  /\ <<"run", F>> \notin jobs[1].sig
  /\ <<"run", "thrown">> \notin jobs[1].sig

(* C29 as claimed: a Job aborted by its caller in RUN, whose handleRun     *)
(* failed with no error, is COMPLETED with the error "aborted"             *)
C29_AbortedSentinel ==
  (jobs[1].state = "COMPLETED" /\ AbortedWithoutRunError) =>
    jobs[1].error = "aborted"

(* the Job's timer fires while the Job is in the given state *)
TimeoutIn(state) == jobs[1].state = state /\ TimerFire(1)

(* C30: a timeout in CANCEL leaves the Job without retries and takes it,   *)
(* with no further call of handleRun then or later, to CLEANUP when        *)
(* autoCleanup is on and to COMPLETED when it is off; a timeout in CLEANUP *)
(* takes the Job to COMPLETED                                              *)
C30_TimeoutForcesProgress ==
  [][/\ TimeoutIn("CANCEL") =>
          /\ jobs'[1].retries = 0
          /\ jobs'[1].state = (IF Truthy(jobs[1].autoCleanup)
                                 THEN "CLEANUP" ELSE "COMPLETED")
     /\ <<"CANCEL", "timeout">> \in jobs'[1].fsm =>
          jobs'[1].ncalls["run"] = jobs[1].ncalls["run"]
     /\ TimeoutIn("CLEANUP") => jobs'[1].state = "COMPLETED"]_vars

C30_Witness ==
  /\ jobs[1].state = "COMPLETED"
  /\ jobs[1].maxRetries = MaxRetries
  /\ jobs[1].ncalls["run"] = 1
  /\ jobs[1].napi["abort"] = 0
  /\ <<"CANCEL", "timeout">> \in jobs[1].fsm
  /\ <<"CLEANUP", "timeout">> \in jobs[1].fsm

(* C31 as claimed: a Job with a timeout that is in RUN, CANCEL or CLEANUP   *)
(* has its timer armed, whatever the handlers of earlier phases signal     *)
C31_TimerArmed ==
  (jobs[1].timeout /\ jobs[1].state \in {"RUN", "CANCEL", "CLEANUP"}) =>
    jobs[1].runningTimeout

(* priv.runningTimeout holds the only timer of the Job that is armed, and  *)
(* none is armed while the Job is in NEW or COMPLETED                      *)
OneTimer(job) ==
  /\ job.timers = (IF job.runningTimeout THEN 1 ELSE 0)
  /\ job.state \in {"NEW", "COMPLETED"} => job.timers = 0
  /\ job.timers > 0 => job.timeout

(* C32: a Job has at most one timer armed and none in NEW or COMPLETED: no *)
(* phase is left with its timer armed, as the next one would arm a second  *)
(* one; a timer fires only in RUN, CANCEL or CLEANUP, and the phase it     *)
(* fires in ends with it, so that it fires once for that entry             *)
C32_NoStaleTimer ==
  [][\A j \in JobIds :
       /\ OneTimer(jobs'[j])
       /\ TimerFire(j) =>
            /\ jobs[j].state \in {"RUN", "CANCEL", "CLEANUP"}
            /\ jobs[j].runningTimeout
            /\ jobs'[j].state /= jobs[j].state]_vars

C32_Witness ==
  /\ jobs[1].state = "COMPLETED"
  /\ jobs[1].timers = 0
  /\ jobs[1].ncalls["run"] = 2
  /\ jobs[1].ncalls["cancel"] = 2
  /\ <<"RUN", "timeout">> \in jobs[1].fsm
  /\ <<"CANCEL", "abort">> \in jobs[1].fsm
  /\ <<"CLEANUP", "timeout">> \in jobs[1].fsm

(* the indices of the children that entered RUN *)
EnteredRun ==
  {n \in 0..(jobs[1].totalSteps - 1) :
     <<"NEW", "run">> \in jobs[jobs[1].steps[n + 1]].fsm}

(* the composite went through CANCEL and is COMPLETED, its cleanup done *)
AfterCancelPass ==
  /\ jobs[1].kind = "comp"
  /\ jobs[1].state = "COMPLETED"
  /\ jobs[1].ncalls["cancel"] >= 1
  /\ Truthy(jobs[1].successCleanup)

(* C33 as claimed: when the composite is COMPLETED after a cancel pass,    *)
(* handleCleanup was invoked once on each child that entered RUN, the      *)
(* aborted one included, from the last of them down to the first           *)
C33_CleanupCoversRun ==
  AfterCancelPass =>
    /\ \A n \in EnteredRun : jobs[jobs[1].steps[n + 1]].ncalls["cleanup"] = 1
    /\ CleanupIndices = DownFrom(Cardinality(EnteredRun) - 1)

(* the changes of state between two rests of the Job: from CANCEL the Job  *)
(* passes through RUN ("retry") on its way to CLEANUP or COMPLETED         *)
PhaseSteps ==
  {<<"NEW", "RUN">>, <<"RUN", "CANCEL">>, <<"CANCEL", "RUN">>,
   <<"RUN", "CLEANUP">>, <<"CANCEL", "CLEANUP">>,
   <<"RUN", "COMPLETED">>, <<"CANCEL", "COMPLETED">>,
   <<"CLEANUP", "COMPLETED">>, <<"COMPLETED", "CLEANUP">>}

Reentry ==
  /\ jobs[1].state = "CANCEL"
  /\ jobs'[1].state = "RUN"
  /\ jobs'[1].ncalls["run"] = jobs[1].ncalls["run"] + 1

(* the caller's abort or the timer of CANCEL *)
ForcedExit ==
  \/ jobs'[1].napi["abort"] = jobs[1].napi["abort"] + 1
  \/ TimeoutIn("CANCEL")

(* C35: for a Job with maxRetries > 0, retries stays within 0..maxRetries, *)
(* is maxRetries until the Job leaves NEW, goes down by one with each      *)
(* re-entry of RUN from CANCEL, changes otherwise only to 0 by an abort or *)
(* a timeout in CANCEL, and handleRun is invoked at most maxRetries times  *)
C35_RetryCounter ==
  [][jobs[1].maxRetries > 0 =>
       /\ jobs'[1].retries \in 0..jobs[1].maxRetries
       /\ jobs[1].state = "NEW" => jobs[1].retries = jobs[1].maxRetries
       /\ Reentry => jobs'[1].retries = jobs[1].retries - 1
       /\ (jobs'[1].retries /= jobs[1].retries /\ ~Reentry) =>
            (ForcedExit /\ jobs'[1].retries = 0)
       /\ jobs'[1].ncalls["run"] <= jobs[1].maxRetries]_vars

C35_Witness ==
  /\ jobs[1].maxRetries = 2
  /\ jobs[1].state = "COMPLETED"
  /\ jobs[1].retries = 0
  /\ jobs[1].ncalls["run"] = 2
  /\ <<"CANCEL", "timeout">> \in jobs[1].fsm
  /\ <<"CANCEL", "exitCancelOk">> \in jobs[1].fsm

(* the promises run(), abort() and cleanup() returned, and those of them   *)
(* that were resolved                                                      *)
Promised(job) == job.napi["run"] + job.napi["abort"] + job.napi["cleanup"]

Resolved(job) == job.nres["run"] + job.nres["abort"] + job.nres["cleanup"]

(* C36: every promise the Job returned is rejected (the request was not    *)
(* accepted), waiting in priv.userDeferred, or resolved, and then once; a  *)
(* promise is resolved only by a step that leaves the Job COMPLETED, and   *)
(* in COMPLETED priv.userDeferred is empty                                 *)
C36_WaiterDiscipline ==
  [][/\ Promised(jobs'[1]) =
          Resolved(jobs'[1]) + jobs'[1].nrej + Len(jobs'[1].userDeferred)
     /\ Resolved(jobs'[1]) /= Resolved(jobs[1]) =>
          jobs'[1].state = "COMPLETED"
     /\ jobs'[1].state = "COMPLETED" => jobs'[1].userDeferred = <<>>]_vars

C36_Witness ==
  /\ jobs[1].state = "COMPLETED"
  /\ jobs[1].nres = [run |-> 1, abort |-> 1, cleanup |-> 1]
  /\ jobs[1].nrej = 0
  /\ jobs[1].userDeferred = <<>>

(* C37: between the turns of the event loop the composite's               *)
(* currentStepIndex is within 0..totalSteps while the composite is in RUN  *)
(* and within -1..totalSteps-1 while it is in CLEANUP, the events carry    *)
(* the index of a step, and no step is taken from priv.steps,              *)
(* priv.runList or priv.cleanupList at an index outside them               *)
C37_CursorBounds ==
  /\ jobs[1].kind = "comp"
  /\ jobs[1].currentStepIndex \in -1..jobs[1].totalSteps
  /\ jobs[1].state = "RUN" =>
       jobs[1].currentStepIndex \in 0..jobs[1].totalSteps
  /\ jobs[1].state = "CLEANUP" =>
       jobs[1].currentStepIndex \in -1..(jobs[1].totalSteps - 1)
  /\ Elems(IndicesOf(obs.progress)) \cup Elems(IndicesOf(obs.cleanupProgress))
       \subseteq 0..(jobs[1].totalSteps - 1)
  /\ ~obs.typeError

C37_Witness ==
  /\ jobs[1].totalSteps = 2
  /\ jobs[1].state = "COMPLETED"
  /\ jobs[1].ncalls["cancel"] = 1
  /\ jobs[1].currentStepIndex = -1
  /\ jobs[2].ncalls["cleanup"] = 1
  /\ jobs[3].ncalls["cancel"] = 1

(* ---- the Job of JobPrivateAPI (SpecSteps) ---- *)
(* the indices of the steps whose handler of the given kind was invoked *)
StepCalls(kind) ==
  LET IsKind(e) == e[1] = kind
      c == SelectSeq(jobs[1].calls, IsKind)
  IN [i \in 1..Len(c) |-> c[i][2]]

(* nothing is under way: no handler is executing, no deferred is pending   *)
(* and no handler has thrown out of cleanup                                *)
AtRest ==
  /\ jobs[1].started
  /\ call = NoCall
  /\ jobs[1].pending = "none"
  /\ ~jobs[1].stuck

(* C38: "completed" is emitted at most once.  When the run of step i has   *)
(* rejected, the Job goes on until cleanup was invoked at i, i-1, ..., 0,  *)
(* a rejected cleanup included, and then emits "completed" with success    *)
(* false; when every step has resolved, "completed" follows the cleanup at *)
(* n-1, ..., 0 and carries success true                                    *)
C38_StepsCleanup ==
  /\ Len(jobs[1].completed) <= 1
  /\ (AtRest /\ jobs[1].errorStepIndex /= <<>>) => jobs[1].completed /= <<>>
  /\ jobs[1].completed /= <<>> =>
       IF jobs[1].errorStepIndex /= <<>>
         THEN /\ StepCalls("run") = UpTo(jobs[1].errorStepIndex[1] + 1)
              /\ StepCalls("cleanup") = DownFrom(jobs[1].errorStepIndex[1])
              /\ jobs[1].completed = <<F>>
         ELSE /\ StepCalls("run") = UpTo(jobs[1].totalSteps)
              /\ StepCalls("cleanup") = DownFrom(jobs[1].totalSteps - 1)
              /\ jobs[1].cleanupProgress = DownFrom(jobs[1].totalSteps - 1)
              /\ jobs[1].completed = <<T>>

C38_Witness ==
  /\ jobs[1].totalSteps = 2
  /\ jobs[1].errorStepIndex = <<1>>
  /\ jobs[1].error = "cleanupError"
  /\ jobs[1].cleanupProgress = <<0>>
  /\ StepCalls("cleanup") = <<1, 0>>
  /\ jobs[1].completed = <<F>>

(* ---- JobScheduler (SpecSched), continued ---- *)
(* C39: isBusy is about the queue alone.  A processQueue that takes the    *)
(* only queued Job leaves the queue empty with that Job running, and an    *)
(* enqueueJob with failOnBusy made while a Job is running and the queue is *)
(* empty is accepted: the new Job is pushed and no null is returned        *)
C39_BusyIsQueueOnly ==
  [][/\ (ProcessQueue /\ Len(sched.queue) = 1) =>
          /\ sched'.queue = <<>>
          /\ ~isBusy([Cur EXCEPT !.sched = sched'])
          /\ jobs'[Head(sched.queue)].state /= "NEW"
     /\ (Enqueue(TRUE) /\ sched.queue = <<>>
           /\ \E j \in TopJobs : Running(j)) =>
          /\ obs'.nulls = obs.nulls
          /\ obs'.pushed = Append(obs.pushed, Len(jobs) + 1)
          /\ Len(jobs') = Len(jobs) + 1]_vars

C39_Witness ==
  /\ Len(jobs) = 2
  /\ Running(1)
  /\ obs.pushed = <<1, 2>>
  /\ obs.nulls = 0
  /\ ~sched.onPushed
  /\ sched.queue = <<2>>

(* C40 as claimed: while the composite is COMPLETED each of its steps is   *)
(* NEW or COMPLETED                                                        *)
C40_CompositeQuiescence ==
  (jobs[1].kind = "comp" /\ jobs[1].state = "COMPLETED") =>
    \A n \in 0..(jobs[1].totalSteps - 1) :
      ChildState(n) \in {"NEW", "COMPLETED"}
====
